---- MODULE Spec2Model ----
(***************************************************************************)
(* TCMonitorDatasource (src/src/datasource/datasource.ts): the dispatcher  *)
(* that selects the enabled monitoring services from the datasource        *)
(* configuration, fans a request out to the per-service clients and merges *)
(* their results.                                                          *)
(*                                                                         *)
(* JavaScript values are written as follows.  A string the code converts   *)
(* (service keys, statuses, titles, messages) is a sequence of one-        *)
(* character strings; an opaque string (a namespace, an error, a refId) is *)
(* a TLA+ string.  A value of a configuration flag is one of the Js*       *)
(* encodings below, so that === is equality of encodings.                  *)
(***************************************************************************)
EXTENDS Integers, Sequences, FiniteSets

VARIABLES
  jsonData,   \* instanceSettings.jsonData: the flags, in insertion order
  disp,       \* per call slot: the dispatch (query / testDatasource) in flight
  ret         \* the value returned by the last synchronous call

vars == <<jsonData, disp, ret>>

\* ------------------------------------------------------------------ bounds

\* Longest target list of a query request.
MaxTargets == 3

\* ------------------------------------------------------------- JS values

JsTrue == "boolean:true"
JsFalse == "boolean:false"
JsStrTrue == "string:true"
JsOne == "number:1"
JsUndefined == "undefined"

\* Values a persisted flag may carry.
FlagValues == {JsTrue, JsFalse, JsStrTrue, JsOne}

Lower == <<"a","b","c","d","e","f","g","h","i","j","k","l","m",
           "n","o","p","q","r","s","t","u","v","w","x","y","z">>

Upper == <<"A","B","C","D","E","F","G","H","I","J","K","L","M",
           "N","O","P","Q","R","S","T","U","V","W","X","Y","Z">>

ToUpperChar(c) ==
  IF \E i \in DOMAIN Lower : Lower[i] = c
  THEN Upper[CHOOSE i \in DOMAIN Lower : Lower[i] = c]
  ELSE c

\* _.upperCase on a key made of lower-case letters only (one word).
UpperCase(s) == [i \in 1..Len(s) |-> ToUpperChar(s[i])]

\* _.upperFirst: the first character upper-cased, the rest untouched.
UpperFirst(s) ==
  IF s = <<>> THEN s ELSE <<ToUpperChar(Head(s))>> \o Tail(s)

\* Decimal digits of a natural number, as `${n}` prints it.
Digit(n) == <<"0","1","2","3","4","5","6","7","8","9">>[n + 1]

RECURSIVE NumberToString(_)
NumberToString(n) ==
  IF n < 10 THEN <<Digit(n)>>
  ELSE NumberToString(n \div 10) \o <<Digit(n % 10)>>

\* ------------------------------------------------- registry and client pool

cvm == <<"c","v","m">>
cdb == <<"c","d","b">>
clb == <<"c","l","b">>
\* A service key that no descriptor of the registry carries.
xx == <<"x","x">>

\* The value undefined where a service key is expected: it is falsy and
\* _.upperCase(undefined) is the empty string.
NoService == <<>>

\* SERVICES of ./tc_monitor, in declaration order.
SERVICES ==
  << [service |-> cvm, namespace |-> "QCE/CVM"],
     [service |-> cdb, namespace |-> "QCE/CDB"],
     [service |-> clb, namespace |-> "QCE/LB_PUBLIC"] >>

ServiceKeys == {SERVICES[i].service : i \in DOMAIN SERVICES}

\* GetServiceFromNamespace of ./common/constants: the key of the descriptor
\* owning the namespace, undefined when there is none.
GetServiceFromNamespace(namespace) ==
  IF \E i \in DOMAIN SERVICES : SERVICES[i].namespace = namespace
  THEN SERVICES[CHOOSE i \in DOMAIN SERVICES :
                  SERVICES[i].namespace = namespace].service
  ELSE NoService

DatasourceSuffix == <<"D","a","t","a","s","o","u","r","c","e">>

\* `${_.upperCase(service)}Datasource`
ClientKey(service) == UpperCase(service) \o DatasourceSuffix

\* Datasources of ./tc_monitor: the client classes, by property name.
Datasources ==
  { <<"C","V","M">> \o DatasourceSuffix,
    <<"C","D","B">> \o DatasourceSuffix,
    <<"C","L","B">> \o DatasourceSuffix }

\* The constructor: one client property per entry of Datasources.
Pool == Datasources

\* ------------------------------------------------------------ configuration

\* jsonData[key] on an object whose own properties are the pairs of jd.
JsonGet(jd, key) ==
  IF \E i \in DOMAIN jd : jd[i][1] = key
  THEN jd[CHOOSE i \in DOMAIN jd : jd[i][1] = key][2]
  ELSE JsUndefined

\* getNamespaces iterating the configuration mapping instead of the registry.
getNamespacesConfigOrder(jd) ==
  LET on == SelectSeq(jd, LAMBDA p : p[2] = JsTrue /\ p[1] \in ServiceKeys)
  IN  [i \in 1..Len(on) |->
         SERVICES[CHOOSE k \in DOMAIN SERVICES :
                    SERVICES[k].service = on[i][1]].namespace]

getNamespaces(jd) ==
  LET on == SelectSeq(SERVICES, LAMBDA s : JsonGet(jd, s.service) = JsTrue)
  IN  [i \in 1..Len(on) |-> on[i].namespace]

\* getSelectedServices keeping the list it computed on its first call.
getSelectedServicesMemo(jd) ==
  IF ret.op = "getSelectedServices" THEN ret.value
  ELSE LET namespaces == getNamespaces(jd)
       IN  [i \in 1..Len(namespaces) |->
              GetServiceFromNamespace(namespaces[i])]

getSelectedServices(jd) ==
  LET namespaces == getNamespaces(jd)
  IN  [i \in 1..Len(namespaces) |-> GetServiceFromNamespace(namespaces[i])]

\* ------------------------------------------------------------------ requests

Targets == {cvm, cdb, clb, xx}

RefIds == <<"A", "B", "C", "D", "E", "F">>

\* The options of a panel query: the targets (refId by position, each tagged
\* with the key of its service) and the fields every target shares.
Requests ==
  UNION { { [targets  |-> [i \in 1..n |->
                            [refId |-> RefIds[i], service |-> f[i]]],
             interval |-> "30s"] : f \in [1..n -> Targets] } :
          n \in 0..MaxTargets }

\* ----------------------------------------------------------------- promises

NoOutcome == [state |-> "none", value |-> <<>>, error |-> ""]
Pending == [state |-> "pending", value |-> <<>>, error |-> ""]
Resolved(v) == [state |-> "resolved", value |-> v, error |-> ""]
Rejected(e) == [state |-> "rejected", value |-> <<>>, error |-> e]

\* Errors a client's promise may reject with.
Errors == {"E1", "E2"}

AllFulfilled(promises) ==
  \A i \in DOMAIN promises : promises[i].state = "fulfilled"

Values(promises) == [i \in DOMAIN promises |-> promises[i].value]

\* The rank of the next settlement among the promises of one dispatch: the
\* field at of a promise records the order in which the clients completed.
NextAt(promises) ==
  1 + Cardinality({i \in DOMAIN promises : promises[i].state # "pending"})

\* AllOnReject wrapping the client's error in one of the dispatcher's own.
AllOnRejectWrapped(outcome, error) ==
  IF outcome.state = "pending" THEN Rejected("DispatchError") ELSE outcome

\* AllOnReject leaving the dispatch to wait for the other clients.
AllOnRejectIgnored(outcome, error) == outcome

\* Promise.all, when one of its promises rejects with error.
AllOnReject(outcome, error) ==
  IF outcome.state = "pending" THEN Rejected(error) ELSE outcome

\* ---------------------------------------------------------------- query

\* FilterTargets without the filter: every client is given every target.
FilterTargetsNone(targets, service) == targets

\* _.filter(targets, ['service', service])
FilterTargets(targets, service) ==
  SelectSeq(targets, LAMBDA t : t.service = service)

\* optionsTemp: the deep copy of options with its targets filtered.
OptionsTemp(options, service) ==
  [options EXCEPT !.targets = FilterTargets(options.targets, service)]

\* QueryCalls without the test of line 109: every selected service's client
\* is called, with an empty target list if need be.
QueryCallsNoSkip(options, services) ==
  [i \in 1..Len(services) |->
     [client |-> ClientKey(services[i]), op |-> "query",
      arg |-> OptionsTemp(options, services[i])]]

\* The client query calls of the forEach, in order.
QueryCalls(options, services) ==
  LET invoked == SelectSeq(services,
                   LAMBDA s : Len(OptionsTemp(options, s).targets) > 0)
  IN  [i \in 1..Len(invoked) |->
         [client |-> ClientKey(invoked[i]), op |-> "query",
          arg |-> OptionsTemp(options, invoked[i])]]

\* QueryPromises without the test of line 111: what every call returned is
\* pushed.
QueryPromisesUnguarded(calls, falsy) ==
  [k \in 1..Len(calls) |->
     [call |-> k, state |-> "pending", value |-> <<>>, error |-> "",
      at |-> 0]]

\* promises: one per call that returned a truthy value (a promise); falsy is
\* the set of clients whose query returned a falsy value.
QueryPromises(calls, falsy) ==
  LET idx == SelectSeq([i \in 1..Len(calls) |-> i],
                       LAMBDA i : calls[i].client \notin falsy)
  IN  [k \in 1..Len(idx) |->
         [call |-> idx[k], state |-> "pending", value |-> <<>>, error |-> "",
          at |-> 0]]

\* QueryReturn treating "nothing to do" as a failure.
QueryReturnRejectsEmpty(promises) ==
  IF Len(promises) = 0 THEN Rejected("E1") ELSE Pending

\* What query returns once the loop is over.
QueryReturn(promises) ==
  IF Len(promises) = 0 THEN Resolved([data |-> <<>>]) ELSE Pending

\* _.flatten on an array of arrays.
RECURSIVE Flatten(_)
Flatten(results) ==
  IF results = <<>> THEN <<>> ELSE Head(results) \o Flatten(Tail(results))

QueryThen(results) == [data |-> Flatten(results)]

\* QueryAllOnFulfil merging the results in the order the clients completed.
QueryAllOnFulfilArrival(outcome, promises) ==
  IF outcome.state = "pending" /\ AllFulfilled(promises)
  THEN Resolved(QueryThen(
         [k \in 1..Len(promises) |->
            promises[CHOOSE i \in DOMAIN promises : promises[i].at = k].value]))
  ELSE outcome

\* QueryAllOnFulfil as Promise.race would have it: the first client to
\* fulfil settles the dispatch, with what has arrived.
QueryAllOnFulfilRace(outcome, promises) ==
  IF outcome.state = "pending"
  THEN Resolved(QueryThen(
         Values(SelectSeq(promises, LAMBDA q : q.state = "fulfilled"))))
  ELSE outcome

\* QueryAllOnFulfil with promises kept in a field of the datasource, shared
\* by the dispatches in flight, instead of a local of query().
QueryAllOnFulfilShared(outcome, promises) ==
  LET own == {d \in DOMAIN disp :
                /\ DOMAIN disp[d].promises = DOMAIN promises
                /\ \E i \in DOMAIN promises :
                     [disp[d].promises EXCEPT ![i] = promises[i]] = promises}
      others == {d \in DOMAIN disp \ own : disp[d].op = "query"}
  IN  IF /\ outcome.state = "pending" /\ AllFulfilled(promises)
         /\ \A d \in others : AllFulfilled(disp[d].promises)
      THEN Resolved(QueryThen(Values(promises)))
      ELSE outcome

\* Promise.all(promises).then(...), when one of its promises fulfils.
QueryAllOnFulfil(outcome, promises) ==
  IF outcome.state = "pending" /\ AllFulfilled(promises)
  THEN Resolved(QueryThen(Values(promises)))
  ELSE outcome

\* The series a client may answer a fragment with: one per target it was
\* given, in the order of its choice.
SeriesOf(arg) ==
  [i \in 1..Len(arg.targets) |->
     [target |-> arg.targets[i].refId, service |-> arg.targets[i].service]]

Reverse(s) == [i \in 1..Len(s) |-> s[Len(s) + 1 - i]]

ClientQueryResult(arg, rev) ==
  IF rev THEN Reverse(SeriesOf(arg)) ELSE SeriesOf(arg)

\* ------------------------------------------------------------ testDatasource

StatusSuccess == <<"s","u","c","c","e","s","s">>
StatusError == <<"e","r","r","o","r">>
StatusTimeout == <<"t","i","m","e","o","u","t">>

\* The fixed message of an unconfigured datasource (one opaque fragment).
NothingConfigured ==
  <<"Nothing configured. At least one of the API's services must be configured.">>

\* What a client's connectivity test may resolve to.
TestResults ==
  [status : {StatusSuccess, StatusError, StatusTimeout},
   message : {<<"o","k">>, <<"m","1">>}]

\* The client connectivity-test calls of the forEach: every selected service.
TestCalls(services) ==
  [i \in 1..Len(services) |->
     [client |-> ClientKey(services[i]), op |-> "testDatasource",
      arg |-> <<>>]]

TestPromises(calls) ==
  [i \in 1..Len(calls) |->
     [call |-> i, state |-> "pending", value |-> <<>>, error |-> "",
      at |-> 0]]

\* TestLoop stopping at the first result that is not a success.
RECURSIVE TestLoopFirstWins(_, _, _, _)
TestLoopFirstWins(results, i, status, message) ==
  IF i < Len(results)
  THEN TestLoopFirstWins(results, i + 1,
         IF results[i + 1].status # StatusSuccess /\ status = StatusSuccess
         THEN results[i + 1].status ELSE status,
         message \o NumberToString(i + 1) \o <<".", " ">>
                 \o results[i + 1].message \o <<" ", "\n">>)
  ELSE [status |-> status, message |-> message]

\* The for loop of the reduction, from index i (0-based) on.
RECURSIVE TestLoop(_, _, _, _)
TestLoop(results, i, status, message) ==
  IF i < Len(results)
  THEN TestLoop(results, i + 1,
         IF results[i + 1].status # StatusSuccess
         THEN results[i + 1].status ELSE status,
         message \o NumberToString(i + 1) \o <<".", " ">>
                 \o results[i + 1].message \o <<" ", "\n">>)
  ELSE [status |-> status, message |-> message]

TestThen(results) ==
  LET r == TestLoop(results, 0, StatusSuccess, <<>>)
  IN  [status |-> r.status, message |-> r.message,
       title |-> UpperFirst(r.status)]

\* TestReturn without the guard: the reduction of no result at all.
TestReturnNoGuard(promises) ==
  IF Len(promises) = 0 THEN Resolved(TestThen(<<>>)) ELSE Pending

\* What testDatasource returns once the loop is over.
TestReturn(promises) ==
  IF Len(promises) = 0
  THEN Resolved([status |-> StatusError, message |-> NothingConfigured,
                 title |-> <<"E","r","r","o","r">>])
  ELSE Pending

\* TestAllOnFulfil answering as soon as one client reports a failure.
TestAllOnFulfilFailFast(outcome, promises) ==
  LET done == SelectSeq(promises, LAMBDA q : q.state = "fulfilled")
  IN  IF /\ outcome.state = "pending"
         /\ \/ AllFulfilled(promises)
            \/ \E i \in DOMAIN done : done[i].value.status # StatusSuccess
      THEN Resolved(TestThen(Values(done)))
      ELSE outcome

\* Promise.all(promises).then(...), when one of its promises fulfils.
TestAllOnFulfil(outcome, promises) ==
  IF outcome.state = "pending" /\ AllFulfilled(promises)
  THEN Resolved(TestThen(Values(promises)))
  ELSE outcome

\* ------------------------------------------------- the request as objects

\* The objects of a request, by address: the options object (refs: its range
\* and its targets array; data: its interval), the range, the targets array
\* (refs: its elements) and one object per target.  mark is 0 until a client
\* writes to the object, and then the index of that client's call.
Obj(kind, refs, data) ==
  [kind |-> kind, refs |-> refs, data |-> data, mark |-> 0]

\* The address of the caller's options object.
CallerRoot == 1

\* The caller's objects for the request options.
CallerHeap(options) ==
  LET n == Len(options.targets)
  IN  [a \in 1..(3 + n) |->
         IF a = 1 THEN Obj("options", <<2, 3>>, <<options.interval>>)
         ELSE IF a = 2 THEN Obj("range", <<>>, <<"now-6h", "now">>)
         ELSE IF a = 3 THEN Obj("array", [i \in 1..n |-> 3 + i], <<>>)
         ELSE Obj("target", <<>>,
                  <<options.targets[a - 3].refId,
                    options.targets[a - 3].service>>)]

SeqRange(f) == {f[i] : i \in DOMAIN f}

\* The objects reachable from root (options, then array, then targets).
Reach(heap, root) ==
  LET l1 == {root} \cup SeqRange(heap[root].refs)
      l2 == l1 \cup UNION {SeqRange(heap[a].refs) : a \in l1}
  IN  l2 \cup UNION {SeqRange(heap[a].refs) : a \in l2}

MaxAddr(heap) == CHOOSE a \in DOMAIN heap : \A b \in DOMAIN heap : b <= a

\* heap with the objects of more added (the domains are disjoint).
Extend(heap, more) ==
  [a \in DOMAIN heap \cup DOMAIN more |->
     IF a \in DOMAIN more THEN more[a] ELSE heap[a]]

\* _.clone in place of _.cloneDeep: a copy of the root object alone, whose
\* references are those of the original.
CloneShallow(heap, root) ==
  LET off == MaxAddr(heap)
  IN  [heap |-> Extend(heap, [a \in {off + root} |-> heap[root]]),
       root |-> off + root]

\* _.cloneDeep: a copy of every object reachable from root, at fresh
\* addresses, the references between them redirected to the copies.
CloneDeep(heap, root) ==
  LET off == MaxAddr(heap)
      old == Reach(heap, root)
      copy == [a \in {off + b : b \in old} |->
                 [heap[a - off] EXCEPT
                    !.refs = [i \in DOMAIN heap[a - off].refs |->
                                off + heap[a - off].refs[i]]]]
  IN  [heap |-> Extend(heap, copy), root |-> off + root]

\* The service of the target object at address a.
ServiceAt(heap, a) == heap[a].data[2]

\* optionsTemp.targets = _.filter(optionsTemp.targets, ['service', service]):
\* a new array of the matching elements, stored in the object at root.
FilterInPlace(heap, root, service) ==
  LET arr == heap[root].refs[2]
      kept == SelectSeq(heap[arr].refs,
                        LAMBDA a : ServiceAt(heap, a) = service)
      new == MaxAddr(heap) + 1
  IN  [Extend(heap, [a \in {new} |-> Obj("array", kept, <<>>)])
         EXCEPT ![root].refs[2] = new]

\* The forEach of query() over the services from index k on: the heap after
\* it and the root of the fragment of each client call made.
RECURSIVE QueryLoopHeap(_, _, _, _)
QueryLoopHeap(heap, root, services, k) ==
  IF k > Len(services) THEN [heap |-> heap, roots |-> <<>>]
  ELSE LET c == CloneDeep(heap, root)
           h == FilterInPlace(c.heap, c.root, services[k])
           rest == QueryLoopHeap(h, root, services, k + 1)
       IN  IF Len(h[h[c.root].refs[2]].refs) > 0
           THEN [heap |-> rest.heap, roots |-> <<c.root>> \o rest.roots]
           ELSE rest

\* The value of the request whose options object is at root.
Deref(heap, root) ==
  LET items == heap[heap[root].refs[2]].refs
  IN  [targets |-> [i \in DOMAIN items |->
                      [refId |-> heap[items[i]].data[1],
                       service |-> heap[items[i]].data[2]]],
       interval |-> heap[root].data[1]]

\* ------------------------------------------------------------ dispatch slots

Slots == {"a", "b"}
\* The slot the callers of Spec use, one dispatch at a time.
MainSlots == {"a"}

Idle ==
  [op |-> "idle", options |-> [targets |-> <<>>, interval |-> ""],
   services |-> <<>>, calls |-> <<>>, promises |-> <<>>,
   outcome |-> NoOutcome]

NoReturn == [op |-> "none", value |-> <<>>]

\* query(options).  Every selected service has its client in the pool (the
\* registry and the client classes carry the same keys), so this[...] is
\* never undefined here.  falsy is the set of the called clients whose query
\* returned a falsy value, kept in the record of the dispatch.
Query(d, options, falsy) ==
  /\ disp[d].op = "idle"
  /\ LET services == getSelectedServices(jsonData)
         calls == QueryCalls(options, services)
         promises == QueryPromises(calls, falsy)
     IN  /\ \A i \in DOMAIN calls : calls[i].client \in Pool
         /\ falsy \subseteq {calls[i].client : i \in DOMAIN calls}
         /\ disp' = [disp EXCEPT ![d] =
                       [op |-> "query", options |-> options,
                        services |-> services, calls |-> calls,
                        falsy |-> falsy, promises |-> promises,
                        outcome |-> QueryReturn(promises)]]
  /\ UNCHANGED <<jsonData, ret>>

\* A client's query promise fulfils, with its series in the order rev says.
QueryResolve(d, i, rev) ==
  /\ disp[d].op = "query"
  /\ i \in DOMAIN disp[d].promises
  /\ disp[d].promises[i].state = "pending"
  /\ LET v == ClientQueryResult(
                disp[d].calls[disp[d].promises[i].call].arg, rev)
         promises == [disp[d].promises EXCEPT
                        ![i].state = "fulfilled", ![i].value = v,
                        ![i].at = NextAt(disp[d].promises)]
     IN  disp' = [disp EXCEPT ![d].promises = promises,
                    ![d].outcome = QueryAllOnFulfil(disp[d].outcome, promises)]
  /\ UNCHANGED <<jsonData, ret>>

\* A client's query promise rejects with the error e.
QueryReject(d, i, e) ==
  /\ disp[d].op = "query"
  /\ i \in DOMAIN disp[d].promises
  /\ disp[d].promises[i].state = "pending"
  /\ disp' = [disp EXCEPT ![d].promises[i].state = "rejected",
                ![d].promises[i].error = e,
                ![d].promises[i].at = NextAt(disp[d].promises),
                ![d].outcome = AllOnReject(disp[d].outcome, e)]
  /\ UNCHANGED <<jsonData, ret>>

\* query(options) with the request and the fragments as objects: the calls
\* are those of Query, each with the address of the fragment it is given.
QueryObjects(d, options) ==
  /\ disp[d].op = "idle"
  /\ LET services == getSelectedServices(jsonData)
         calls == QueryCalls(options, services)
         promises == QueryPromises(calls, {})
         loop == QueryLoopHeap(CallerHeap(options), CallerRoot, services, 1)
     IN  /\ \A i \in DOMAIN calls : calls[i].client \in Pool
         /\ disp' = [disp EXCEPT ![d] =
                       [op |-> "query", options |-> options,
                        services |-> services, calls |-> calls,
                        promises |-> promises,
                        outcome |-> QueryReturn(promises),
                        heap |-> loop.heap, roots |-> loop.roots]]
  /\ UNCHANGED <<jsonData, ret>>

\* The client of call i, still at work, writes to the object at address a of
\* the fragment it was given.
ClientMutate(d, i, a) ==
  /\ disp[d].op = "query"
  /\ "heap" \in DOMAIN disp[d]
  /\ i \in DOMAIN disp[d].roots
  /\ \E p \in DOMAIN disp[d].promises :
       disp[d].promises[p].call = i /\ disp[d].promises[p].state = "pending"
  /\ a \in Reach(disp[d].heap, disp[d].roots[i])
  /\ disp[d].heap[a].mark # i
  /\ disp' = [disp EXCEPT ![d].heap[a].mark = i]
  /\ UNCHANGED <<jsonData, ret>>

\* testDatasource()
TestDatasource(d) ==
  /\ disp[d].op = "idle"
  /\ LET services == getSelectedServices(jsonData)
         calls == TestCalls(services)
         promises == TestPromises(calls)
     IN  /\ \A i \in DOMAIN calls : calls[i].client \in Pool
         /\ disp' = [disp EXCEPT ![d] =
                       [op |-> "test", options |-> Idle.options,
                        services |-> services, calls |-> calls,
                        promises |-> promises,
                        outcome |-> TestReturn(promises)]]
  /\ UNCHANGED <<jsonData, ret>>

\* A client's connectivity test resolves to the status record r.
TestResolve(d, i, r) ==
  /\ disp[d].op = "test"
  /\ i \in DOMAIN disp[d].promises
  /\ disp[d].promises[i].state = "pending"
  /\ LET promises == [disp[d].promises EXCEPT
                        ![i].state = "fulfilled", ![i].value = r,
                        ![i].at = NextAt(disp[d].promises)]
     IN  disp' = [disp EXCEPT ![d].promises = promises,
                    ![d].outcome = TestAllOnFulfil(disp[d].outcome, promises)]
  /\ UNCHANGED <<jsonData, ret>>

\* A client's connectivity test rejects with the error e.
TestReject(d, i, e) ==
  /\ disp[d].op = "test"
  /\ i \in DOMAIN disp[d].promises
  /\ disp[d].promises[i].state = "pending"
  /\ disp' = [disp EXCEPT ![d].promises[i].state = "rejected",
                ![d].promises[i].error = e,
                ![d].promises[i].at = NextAt(disp[d].promises),
                ![d].outcome = AllOnReject(disp[d].outcome, e)]
  /\ UNCHANGED <<jsonData, ret>>

\* A direct call of getSelectedServices().
CallGetSelectedServices ==
  /\ ret' = [op |-> "getSelectedServices",
             value |-> getSelectedServices(jsonData)]
  /\ UNCHANGED <<jsonData, disp>>

\* The caller has taken the settled outcome and every client is done.
Return(d) ==
  /\ disp[d].op # "idle"
  /\ disp[d].outcome.state \in {"resolved", "rejected"}
  /\ \A i \in DOMAIN disp[d].promises : disp[d].promises[i].state # "pending"
  /\ disp' = [disp EXCEPT ![d] = Idle]
  /\ UNCHANGED <<jsonData, ret>>

\* The holder of instanceSettings (the configuration page) sets the flag of
\* service k to v; the instance reads the same object (line 25).
SetFlag(k, v) ==
  /\ JsonGet(jsonData, k) # v
  /\ jsonData' =
       IF \E i \in DOMAIN jsonData : jsonData[i][1] = k
       THEN [i \in DOMAIN jsonData |->
               IF jsonData[i][1] = k THEN <<k, v>> ELSE jsonData[i]]
       ELSE Append(jsonData, <<k, v>>)
  /\ UNCHANGED <<disp, ret>>

\* ------------------------------------------------- single-client delegation

\* What a synchronous call gives back: an array, a promise already resolved
\* to an array, or whatever the client call returned, handed on as it is.
NoValue == [kind |-> "none", items |-> <<>>, call |-> <<>>]
EmptyList == [kind |-> "array", items |-> <<>>, call |-> <<>>]
EmptyListPromise == [kind |-> "resolved", items |-> <<>>, call |-> <<>>]
ClientValue(call) == [kind |-> "client", items |-> <<>>, call |-> <<call>>]

\* A call that ran to its return statement, and one that threw the
\* TypeError of a property read on undefined.
Returned(op, value, calls) ==
  [op |-> op, value |-> value, calls |-> calls, thrown |-> FALSE]
Thrown(op) ==
  [op |-> op, value |-> NoValue, calls |-> <<>>, thrown |-> TRUE]

\* The outcome r of a call, with the arguments the call was made with.
CallOf(r, args) ==
  [op |-> r.op, args |-> args, value |-> r.value, calls |-> r.calls,
   thrown |-> r.thrown]

\* The template-variable query strings: the items key=value they are made
\* of, each key at most once.
QueryStrings ==
  { SelectSeq(<<<<"namespace", n>>, <<"action", a>>, <<"region", r>>>>,
              LAMBDA item : item[2] # "absent") :
      n \in {"QCE/CVM", "QCE/CDB", "QCE/NOPE", "", "absent"},
      a \in {"DescribeInstances", "", "absent"},
      r \in {"ap-guangzhou", "absent"} }

\* ParseMetricQuery of ./common/constants: the mapping of the items' keys to
\* their values.
ParseMetricQuery(query) ==
  [k \in {query[i][1] : i \in DOMAIN query} |->
     query[CHOOSE i \in DOMAIN query : query[i][1] = k][2]]

\* queries[key]; an absent key reads undefined, falsy like the empty string.
QueryParam(queries, key) ==
  IF key \in DOMAIN queries THEN queries[key] ELSE ""

\* GetServiceFromNamespace(queries['namespace'] || '')
MetricFindService(queries) ==
  GetServiceFromNamespace(QueryParam(queries, "namespace"))

\* MetricFindIncomplete without the test of the action.
MetricFindIncompleteNoAction(queries) ==
  \/ DOMAIN queries = {}
  \/ QueryParam(queries, "namespace") = ""
  \/ MetricFindService(queries) = NoService

\* _.isEmpty(queries) || !queries['namespace'] || !queries['action'] || !service
MetricFindIncomplete(queries) ==
  \/ DOMAIN queries = {}
  \/ QueryParam(queries, "namespace") = ""
  \/ QueryParam(queries, "action") = ""
  \/ MetricFindService(queries) = NoService

\* MetricFindCalls addressing the first client of the registry, whatever the
\* namespace.
MetricFindCallsFirstClient(queries) ==
  IF MetricFindIncomplete(queries) THEN <<>>
  ELSE << [client |-> ClientKey(SERVICES[1].service),
           op |-> "metricFindQuery", arg |-> queries] >>

\* The client calls of metricFindQuery: none, or the one of line 135.
MetricFindCalls(queries) ==
  IF MetricFindIncomplete(queries) THEN <<>>
  ELSE << [client |-> ClientKey(MetricFindService(queries)),
           op |-> "metricFindQuery", arg |-> queries] >>

\* metricFindQuery(query); falsy says the client returned a falsy value.
CallMetricFindQuery(query, falsy) ==
  /\ LET queries == ParseMetricQuery(query)
         calls == MetricFindCalls(queries)
     IN  ret' = CallOf(
           IF calls = <<>>
           THEN Returned("metricFindQuery", EmptyListPromise, <<>>)
           ELSE IF calls[1].client \notin Pool THEN Thrown("metricFindQuery")
           ELSE IF falsy
           THEN Returned("metricFindQuery", EmptyListPromise, calls)
           ELSE Returned("metricFindQuery", ClientValue(calls[1]), calls),
           [query |-> query])
  /\ UNCHANGED <<jsonData, disp>>

\* return this[`${_.upperCase(service)}Datasource`].op(...arg)
Delegate(service, op, arg) ==
  IF ClientKey(service) \notin Pool
  THEN Thrown(op)
  ELSE LET call == [client |-> ClientKey(service), op |-> op, arg |-> arg]
       IN  Returned(op, ClientValue(call), <<call>>)

\* GetZonesOf calling getZones on the client whether it has it or not.
GetZonesOfUnguarded(service, region, hasZones) ==
  IF ClientKey(service) \in Pool /\ ~hasZones
  THEN Thrown("getZones")
  ELSE Delegate(service, "getZones", <<region>>)

\* The body of getZones; hasZones says the client has a getZones property.
GetZonesOf(service, region, hasZones) ==
  IF ClientKey(service) \in Pool /\ ~hasZones
  THEN Returned("getZones", EmptyList, <<>>)
  ELSE Delegate(service, "getZones", <<region>>)

\* The service keys and regions the callers pass.
ServiceArgs == Targets \cup {NoService}
Regions == {"ap-guangzhou", "ap-beijing"}

\* getRegions(service)
CallGetRegions(service) ==
  /\ ret' = CallOf(Delegate(service, "getRegions", <<>>),
                   [service |-> service])
  /\ UNCHANGED <<jsonData, disp>>

\* getMetrics(service, region)
CallGetMetrics(service, region) ==
  /\ ret' = CallOf(Delegate(service, "getMetrics", <<region>>),
                   [service |-> service, region |-> region])
  /\ UNCHANGED <<jsonData, disp>>

\* getZones(service, region)
CallGetZones(service, region, hasZones) ==
  /\ ret' = CallOf(GetZonesOf(service, region, hasZones),
                   [service |-> service, region |-> region,
                    hasZones |-> hasZones])
  /\ UNCHANGED <<jsonData, disp>>

\* getInstances(service, region, params)
CallGetInstances(service, region, params) ==
  /\ ret' = CallOf(Delegate(service, "getInstances", <<region, params>>),
                   [service |-> service, region |-> region,
                    params |-> params])
  /\ UNCHANGED <<jsonData, disp>>

\* --------------------------------------------------------- specifications

\* The flags as the configuration page saves them: one per service, in
\* registry order.
MainConfigs ==
  { [i \in DOMAIN SERVICES |-> <<SERVICES[i].service, f[i]>>] :
      f \in [DOMAIN SERVICES -> {JsTrue, JsFalse, JsStrTrue}] }

Init ==
  /\ jsonData \in MainConfigs
  /\ disp = [d \in Slots |-> Idle]
  /\ ret = NoReturn

Next ==
  \E d \in MainSlots :
    \/ \E options \in Requests, falsy \in SUBSET Pool : Query(d, options, falsy)
    \/ \E i \in 1..Len(SERVICES), rev \in BOOLEAN : QueryResolve(d, i, rev)
    \/ \E i \in 1..Len(SERVICES), e \in Errors : QueryReject(d, i, e)
    \/ TestDatasource(d)
    \/ \E i \in 1..Len(SERVICES), r \in TestResults : TestResolve(d, i, r)
    \/ \E i \in 1..Len(SERVICES), e \in Errors : TestReject(d, i, e)
    \/ Return(d)

Spec == Init /\ [][Next]_vars

\* Every shape the persisted flags may have: any of the flags present, in
\* any insertion order, each with any value.
AllConfigs ==
  { jd \in UNION {[1..n -> ServiceKeys \X FlagValues] :
                    n \in 0..Len(SERVICES)} :
      \A i, j \in DOMAIN jd : i # j => jd[i][1] # jd[j][1] }

InitSel ==
  /\ jsonData \in AllConfigs
  /\ disp = [d \in Slots |-> Idle]
  /\ ret = NoReturn

NextSel == CallGetSelectedServices

\* getSelectedServices() over every configuration.
SpecSel == InitSel /\ [][NextSel]_vars

InitCalls ==
  /\ jsonData \in MainConfigs
  /\ disp = [d \in Slots |-> Idle]
  /\ ret = NoReturn

NextCalls ==
  \/ \E query \in QueryStrings, falsy \in BOOLEAN :
       CallMetricFindQuery(query, falsy)
  \/ \E service \in ServiceArgs : CallGetRegions(service)
  \/ \E service \in ServiceArgs, region \in Regions :
       CallGetMetrics(service, region)
  \/ \E service \in ServiceArgs, region \in Regions, hasZones \in BOOLEAN :
       CallGetZones(service, region, hasZones)
  \/ \E service \in ServiceArgs, region \in Regions :
       CallGetInstances(service, region, "params")

\* The single-client calls, over every configuration.
SpecCalls == InitCalls /\ [][NextCalls]_vars


\* Requests of at most two targets, for the dispatches followed object by
\* object.
SmallRequests == {r \in Requests : Len(r.targets) <= 2}

InitObjects ==
  /\ jsonData \in {jd \in MainConfigs : \A i \in DOMAIN jd : jd[i][2] # JsStrTrue}
  /\ disp = [d \in Slots |-> Idle]
  /\ ret = NoReturn

NextObjects ==
  \E d \in MainSlots :
    \/ \E options \in SmallRequests : QueryObjects(d, options)
    \/ \E i \in 1..Len(SERVICES) :
         \E a \in (IF "heap" \in DOMAIN disp[d]
                   THEN DOMAIN disp[d].heap ELSE {}) : ClientMutate(d, i, a)
    \/ \E i \in 1..Len(SERVICES) : QueryResolve(d, i, FALSE)
    \/ \E i \in 1..Len(SERVICES) : QueryReject(d, i, "E1")
    \/ Return(d)

\* query() with its request and fragments as objects the clients may write.
SpecObjects == InitObjects /\ [][NextObjects]_vars

\* Requests over two services, for the overlapping dispatches.
OverlapRequests ==
  {r \in SmallRequests : \A i \in DOMAIN r.targets :
                           r.targets[i].service \in {cvm, cdb}}

OverlapTestResults ==
  { [status |-> StatusSuccess, message |-> <<"o","k">>],
    [status |-> StatusError, message |-> <<"m","1">>] }

InitOverlap ==
  /\ jsonData = <<<<cvm, JsTrue>>, <<cdb, JsTrue>>, <<clb, JsFalse>>>>
  /\ disp = [d \in Slots |-> Idle]
  /\ ret = NoReturn

NextOverlap ==
  \E d \in Slots :
    \/ \E options \in OverlapRequests : Query(d, options, {})
    \/ \E i \in 1..Len(SERVICES) : QueryResolve(d, i, FALSE)
    \/ \E i \in 1..Len(SERVICES) : QueryReject(d, i, "E1")
    \/ TestDatasource(d)
    \/ \E i \in 1..Len(SERVICES), r \in OverlapTestResults :
         TestResolve(d, i, r)
    \/ \E i \in 1..Len(SERVICES) : TestReject(d, i, "E2")
    \/ Return(d)

\* Two callers, whose dispatches may overlap.
SpecOverlap == InitOverlap /\ [][NextOverlap]_vars

\* One request with a target of each of two services.
ConfigRequests ==
  {r \in SmallRequests :
     /\ [i \in DOMAIN r.targets |-> r.targets[i].service] = <<cvm, cdb>>
     /\ [i \in DOMAIN r.targets |-> r.targets[i].refId] = <<"A", "B">>}

InitConfig ==
  /\ jsonData \in {jd \in MainConfigs :
                      \A i \in DOMAIN jd : jd[i][2] # JsStrTrue}
  /\ disp = [d \in Slots |-> Idle]
  /\ ret = NoReturn

NextConfig ==
  \/ \E k \in ServiceKeys, v \in {JsTrue, JsFalse} : SetFlag(k, v)
  \/ CallGetSelectedServices
  \/ \E d \in Slots :
       \/ \E options \in ConfigRequests : Query(d, options, {})
       \/ \E i \in 1..Len(SERVICES) : QueryResolve(d, i, FALSE)
       \/ TestDatasource(d)
       \/ \E i \in 1..Len(SERVICES) :
            TestResolve(d, i, [status |-> StatusSuccess,
                               message |-> <<"o","k">>])
       \/ Return(d)

\* Dispatches on an instance whose flags change while it is in use.
SpecConfig == InitConfig /\ [][NextConfig]_vars

\* The promise of call i of the dispatch of slot d settles.
ClientSettles(d, i) ==
  \/ QueryResolve(d, i, FALSE)
  \/ QueryReject(d, i, "E1")
  \/ \E r \in OverlapTestResults : TestResolve(d, i, r)
  \/ TestReject(d, i, "E2")

InitLive ==
  /\ jsonData \in {jd \in MainConfigs :
                      \A i \in DOMAIN jd : jd[i][2] # JsStrTrue}
  /\ disp = [d \in Slots |-> Idle]
  /\ ret = NoReturn

NextLive ==
  \E d \in MainSlots :
    \/ \E options \in OverlapRequests, falsy \in SUBSET Pool :
         Query(d, options, falsy)
    \/ TestDatasource(d)
    \/ \E i \in 1..Len(SERVICES) : ClientSettles(d, i)
    \/ Return(d)

\* Every promise a client returned settles: a pending promise is not left
\* pending for ever.
FairClients ==
  \A d \in MainSlots : \A i \in 1..Len(SERVICES) :
    WF_vars(ClientSettles(d, i))

\* The dispatches of one caller, with clients whose promises all settle.
SpecLive == InitLive /\ [][NextLive]_vars /\ FairClients

\* ------------------------------------------------------------------ claims

\* The keys whose flag is a property of jd with the boolean value true.
Enabled(jd) ==
  {k \in ServiceKeys : \E i \in DOMAIN jd : jd[i] = <<k, JsTrue>>}

\* The place of a service key in the registry's declaration order.
RegIndex(k) == CHOOSE i \in DOMAIN SERVICES : SERVICES[i].service = k

Range(f) == {f[i] : i \in DOMAIN f}

\* The services of the targets of a request.
TargetServices(options) == {t.service : t \in Range(options.targets)}

\* C1: getSelectedServices() returns exactly the service keys whose flag is
\* strictly the boolean true, each once, in registry declaration order,
\* whatever the order of the flags in the configuration mapping; with no flag
\* enabled it returns the empty sequence.
C1_SelectedServices ==
  ret.op = "getSelectedServices" =>
    LET r == ret.value
    IN  /\ Range(r) = Enabled(jsonData)
        /\ Len(r) = Cardinality(Enabled(jsonData))
        /\ \A i, j \in DOMAIN r : i < j => RegIndex(r[i]) < RegIndex(r[j])
        /\ (Enabled(jsonData) = {} => r = <<>>)

\* Two services enabled by flags stored in the reverse of the registry order,
\* beside a flag whose value is the string "true".
C1_Witness ==
  /\ ret.op = "getSelectedServices"
  /\ jsonData = <<<<clb, JsTrue>>, <<cdb, JsStrTrue>>, <<cvm, JsTrue>>>>
  /\ ret.value = <<cvm, clb>>

\* C2: a query() whose request has no target owned by an enabled service (no
\* service enabled, or none owning a target) invokes no client and is
\* resolved, as soon as it returns, to {data: []}.
C2_EmptyDispatch ==
  \A d \in Slots :
    (/\ disp[d].op = "query"
     /\ TargetServices(disp[d].options) \cap Enabled(jsonData) = {})
    => /\ disp[d].calls = <<>>
       /\ disp[d].promises = <<>>
       /\ disp[d].outcome.state = "resolved"
       /\ disp[d].outcome.value = [data |-> <<>>]

\* A service is enabled and the request has targets, none of them its own.
C2_Witness ==
  \E d \in Slots :
    /\ disp[d].op = "query"
    /\ Enabled(jsonData) = {cdb}
    /\ TargetServices(disp[d].options) = {cvm, xx}
    /\ disp[d].outcome.state = "resolved"

\* C3: the targets of a service that is not active are passed to no client,
\* the client of that service is not invoked, and no series coming from such
\* a target is in the merged output; their presence fails nothing.
C3_Partition ==
  \A d \in Slots :
    disp[d].op = "query" =>
      /\ \A i \in DOMAIN disp[d].calls :
           /\ disp[d].calls[i].client \in
                {ClientKey(k) : k \in Enabled(jsonData)}
           /\ \A t \in Range(disp[d].calls[i].arg.targets) :
                /\ t.service \in Enabled(jsonData)
                /\ ClientKey(t.service) = disp[d].calls[i].client
      /\ disp[d].outcome.state = "resolved" =>
           \A s \in Range(disp[d].outcome.value.data) :
             s.service \in Enabled(jsonData)
      /\ disp[d].outcome.state = "rejected" =>
           \E i \in DOMAIN disp[d].promises :
             disp[d].promises[i].state = "rejected"

\* Targets of cvm and cdb with only cvm active: merged, cvm's series alone.
C3_Witness ==
  \E d \in Slots :
    /\ disp[d].op = "query"
    /\ Enabled(jsonData) = {cvm}
    /\ TargetServices(disp[d].options) = {cvm, cdb}
    /\ disp[d].outcome.state = "resolved"
    /\ Len(disp[d].outcome.value.data) > 0

\* The merged block of the service of registry index k and of those after
\* it: the result of each one's client, where it made a promise.
RECURSIVE BlocksFrom(_, _)
BlocksFrom(d, k) ==
  IF k > Len(SERVICES) THEN <<>>
  ELSE LET mine == {i \in DOMAIN disp[d].promises :
                      disp[d].calls[disp[d].promises[i].call].client
                        = ClientKey(SERVICES[k].service)}
       IN  (IF mine = {} THEN <<>>
            ELSE disp[d].promises[CHOOSE i \in mine : TRUE].value)
           \o BlocksFrom(d, k + 1)

\* C4: when every invoked client succeeds, the merged data is the clients'
\* result sequences, each whole and in its own order, one after the other in
\* registry order, whatever the order in which the clients completed.
C4_MergeOrder ==
  \A d \in Slots :
    (disp[d].op = "query" /\ disp[d].outcome.state = "resolved")
    => disp[d].outcome.value = [data |-> BlocksFrom(d, 1)]

\* Three clients that completed in the reverse of the registry order.
C4_Witness ==
  \E d \in Slots :
    /\ disp[d].op = "query"
    /\ disp[d].outcome.state = "resolved"
    /\ Len(disp[d].promises) = 3
    /\ disp[d].promises[3].at = 1
    /\ disp[d].promises[2].at = 2
    /\ [i \in 1..3 |-> disp[d].outcome.value.data[i].service]
         = <<cvm, cdb, clb>>

Rejections(d) ==
  {i \in DOMAIN disp[d].promises : disp[d].promises[i].state = "rejected"}

\* The client that failed first.
FirstRejected(d) ==
  CHOOSE i \in Rejections(d) :
    \A j \in Rejections(d) : disp[d].promises[i].at <= disp[d].promises[j].at

\* C5: as soon as a client's query has failed, the dispatch has failed, with
\* the error of that client as it is (of the first one, when several fail),
\* and it carries no data: no partial merge is ever delivered.
C5_AllOrNothing ==
  \A d \in Slots :
    (disp[d].op = "query" /\ Rejections(d) # {})
    => /\ disp[d].outcome.state = "rejected"
       /\ disp[d].outcome.error = disp[d].promises[FirstRejected(d)].error
       /\ disp[d].outcome.value = <<>>

\* One client succeeded, then one failed with E1, then one with E2.
C5_Witness ==
  \E d \in Slots :
    /\ disp[d].op = "query"
    /\ Len(disp[d].promises) = 3
    /\ disp[d].promises[1].state = "fulfilled" /\ disp[d].promises[1].at = 1
    /\ disp[d].promises[3].error = "E1" /\ disp[d].promises[3].at = 2
    /\ disp[d].promises[2].error = "E2" /\ disp[d].promises[2].at = 3
    /\ disp[d].outcome.error = "E1"

\* C6: in the step in which a client's query fails, the dispatch is failed,
\* whether or not the other clients are still pending; that step and every
\* other step of the dispatch invoke no client (no retry) and leave the
\* other clients' promises as they are.
C6_FailFast ==
  [][\A d \in Slots :
       (disp[d].op = "query" /\ disp'[d].op = "query")
       => /\ disp'[d].calls = disp[d].calls
          /\ \A i \in DOMAIN disp[d].promises :
               (/\ disp[d].promises[i].state = "pending"
                /\ disp'[d].promises[i].state = "rejected")
               => /\ disp'[d].outcome.state = "rejected"
                  /\ \A j \in DOMAIN disp[d].promises \ {i} :
                       disp'[d].promises[j] = disp[d].promises[j]]_vars

\* The dispatch has failed on its first completion, two clients pending.
C6_Witness ==
  \E d \in Slots :
    /\ disp[d].op = "query"
    /\ disp[d].outcome.state = "rejected"
    /\ Cardinality({i \in DOMAIN disp[d].promises :
                      disp[d].promises[i].state = "pending"}) = 2

\* C7: testDatasource() with no active service invokes no client and is
\* resolved, as soon as it returns, to the fixed record.
C7_NothingConfigured ==
  \A d \in Slots :
    (disp[d].op = "test" /\ Enabled(jsonData) = {})
    => /\ disp[d].calls = <<>>
       /\ disp[d].outcome.state = "resolved"
       /\ disp[d].outcome.value =
            [status |-> <<"e","r","r","o","r">>,
             title |-> <<"E","r","r","o","r">>,
             message |-> NothingConfigured]

\* No flag is the boolean true, one is the string "true".
C7_Witness ==
  \E d \in Slots :
    /\ disp[d].op = "test"
    /\ jsonData = <<<<cvm, JsFalse>>, <<cdb, JsStrTrue>>, <<clb, JsFalse>>>>
    /\ disp[d].outcome.state = "resolved"

\* The place of the k-th line end of a message.
LineEnd(msg, k) ==
  CHOOSE p \in DOMAIN msg :
    /\ msg[p] = "\n"
    /\ Cardinality({q \in 1..p : msg[q] = "\n"}) = k

\* The k-th line of a message, without its line end.
Line(msg, k) ==
  SubSeq(msg, IF k = 1 THEN 1 ELSE LineEnd(msg, k - 1) + 1, LineEnd(msg, k) - 1)

LineCount(msg) == Cardinality({p \in DOMAIN msg : msg[p] = "\n"})

Capitalized ==
  [s \in {StatusSuccess, StatusError, StatusTimeout} |->
     IF s = StatusSuccess THEN <<"S","u","c","c","e","s","s">>
     ELSE IF s = StatusError THEN <<"E","r","r","o","r">>
     ELSE <<"T","i","m","e","o","u","t">>]

\* C8: the reduction of testDatasource(): the status is "success" exactly
\* when every result's is, otherwise that of the last result that is not a
\* success; the message has one line per result, in order, made of its
\* 1-based index and its message; the title is the status capitalized.
C8_Reduction ==
  \A d \in Slots :
    (disp[d].op = "test" /\ disp[d].outcome.state = "resolved"
       /\ disp[d].promises # <<>>)
    => LET results == Values(disp[d].promises)
           out == disp[d].outcome.value
           bad == {i \in DOMAIN results : results[i].status # StatusSuccess}
       IN  /\ (out.status = StatusSuccess) <=> (bad = {})
           /\ bad # {} =>
                out.status =
                  results[CHOOSE i \in bad : \A j \in bad : j <= i].status
           /\ out.title = Capitalized[out.status]
           /\ LineCount(out.message) = Len(results)
           /\ out.message[Len(out.message)] = "\n"
           /\ \A k \in DOMAIN results :
                Line(out.message, k) =
                  <<(<<"1","2","3","4","5","6","7","8","9">>)[k], ".", " ">>
                    \o results[k].message \o <<" ">>

\* The results [error "m1", timeout, success]: timeout wins.
C8_Witness ==
  \E d \in Slots :
    /\ disp[d].op = "test"
    /\ disp[d].outcome.state = "resolved"
    /\ Len(disp[d].promises) = 3
    /\ disp[d].promises[1].value =
         [status |-> StatusError, message |-> <<"m","1">>]
    /\ disp[d].promises[2].value.status = StatusTimeout
    /\ disp[d].promises[3].value.status = StatusSuccess
    /\ disp[d].outcome.value.status = StatusTimeout

\* The enabled services' clients, in registry order.
RECURSIVE EnabledClientsFrom(_, _)
EnabledClientsFrom(jd, k) ==
  IF k > Len(SERVICES) THEN <<>>
  ELSE (IF SERVICES[k].service \in Enabled(jd)
        THEN <<ClientKey(SERVICES[k].service)>> ELSE <<>>)
       \o EnabledClientsFrom(jd, k + 1)

\* C9: testDatasource() invokes the connectivity test of every active
\* client; a client reporting a failure leaves the dispatch waiting for the
\* others; the aggregate exists only once all have completed, and has a line
\* for each of them.
C9_FailSlow ==
  \A d \in Slots :
    disp[d].op = "test" =>
      /\ [i \in DOMAIN disp[d].calls |-> disp[d].calls[i].client]
           = EnabledClientsFrom(jsonData, 1)
      /\ \A i \in DOMAIN disp[d].calls :
           disp[d].calls[i].op = "testDatasource"
      /\ Len(disp[d].promises) = Len(disp[d].calls)
      /\ (Rejections(d) = {} /\ ~AllFulfilled(disp[d].promises))
           => disp[d].outcome.state = "pending"
      /\ (disp[d].outcome.state = "resolved" /\ disp[d].calls # <<>>)
           => /\ AllFulfilled(disp[d].promises)
              /\ LineCount(disp[d].outcome.value.message) = Len(disp[d].calls)
              /\ \A k \in DOMAIN disp[d].promises :
                   \E p \in DOMAIN disp[d].outcome.value.message :
                     SubSeq(disp[d].outcome.value.message, p,
                            p + Len(disp[d].promises[k].value.message) - 1)
                       = disp[d].promises[k].value.message

\* The first client to complete reported an error, two were still pending
\* and completed after it; all three are in the aggregate.
C9_Witness ==
  \E d \in Slots :
    /\ disp[d].op = "test"
    /\ disp[d].outcome.state = "resolved"
    /\ Len(disp[d].promises) = 3
    /\ disp[d].promises[2].at = 1
    /\ disp[d].promises[2].value.status = StatusError
    /\ LineCount(disp[d].outcome.value.message) = 3

\* C10: a connectivity test that rejects is treated as a result of status
\* "error": testDatasource() is not failed by it, and once every test has
\* completed it is resolved.
C10_RejectionIsErrorStatus ==
  \A d \in Slots :
    (disp[d].op = "test" /\ Rejections(d) # {})
    => /\ disp[d].outcome.state # "rejected"
       /\ (\A i \in DOMAIN disp[d].promises :
             disp[d].promises[i].state # "pending")
            => disp[d].outcome.state = "resolved"

\* The services owning a namespace of the registry.
Owner(namespace) ==
  {SERVICES[i].service : i \in {j \in DOMAIN SERVICES :
                                  SERVICES[j].namespace = namespace}}

\* The values the items of a query string give a key (none when it is
\* absent, the empty string counting as none).
ItemValues(query, key) ==
  {query[i][2] : i \in {j \in DOMAIN query : query[j][1] = key}} \ {""}

\* A query string with a namespace that a service owns, and an action.
Complete(query) ==
  /\ ItemValues(query, "action") # {}
  /\ \E n \in ItemValues(query, "namespace") : Owner(n) # {}

\* C11: metricFindQuery() resolves to the empty list, throws nothing and
\* invokes no client when the parsed mapping is empty, has no namespace, has
\* no action, or has a namespace no registered service owns.
C11_IncompleteQuery ==
  (ret.op = "metricFindQuery" /\ ~Complete(ret.args.query)) =>
    /\ ~ret.thrown
    /\ ret.calls = <<>>
    /\ ret.value = EmptyListPromise

\* A registered namespace and no action: the resolved empty list.
C11_Witness ==
  /\ ret.op = "metricFindQuery"
  /\ ret.args.query = <<<<"namespace", "QCE/CVM">>, <<"region", "ap-guangzhou">>>>
  /\ ret.value = EmptyListPromise

\* C12: a complete metricFindQuery() call addresses one client, the one of
\* the service owning the namespace, with the parsed mapping, whether or not
\* that service is enabled.
C12_OneClient ==
  (ret.op = "metricFindQuery" /\ Complete(ret.args.query)) =>
    /\ ~ret.thrown
    /\ Len(ret.calls) = 1
    /\ ret.calls[1].op = "metricFindQuery"
    /\ \E n \in ItemValues(ret.args.query, "namespace") :
         \E k \in Owner(n) : ret.calls[1].client = ClientKey(k)
    /\ ret.value \in {ClientValue(ret.calls[1]), EmptyListPromise}

\* The client of cdb is addressed while cdb is disabled and cvm enabled.
C12_Witness ==
  /\ ret.op = "metricFindQuery"
  /\ Enabled(jsonData) = {cvm}
  /\ Len(ret.calls) = 1
  /\ ret.calls[1].client = ClientKey(cdb)
  /\ ret.value = ClientValue(ret.calls[1])

\* C13: getZones() on a service whose client has no getZones gives the empty
\* list, makes no call and throws nothing; on a client that has it, it gives
\* back what that client's getZones(region) returned.
C13_Zones ==
  (ret.op = "getZones" /\ ret.args.service \in ServiceKeys) =>
    /\ ~ret.thrown
    /\ ~ret.args.hasZones => (ret.value = EmptyList /\ ret.calls = <<>>)
    /\ ret.args.hasZones =>
         /\ ret.calls = << [client |-> ClientKey(ret.args.service),
                            op |-> "getZones",
                            arg |-> <<ret.args.region>>] >>
         /\ ret.value = ClientValue(ret.calls[1])

\* A registered service whose client lacks getZones: the empty list.
C13_Witness ==
  /\ ret.op = "getZones"
  /\ ret.args.service = cdb
  /\ ~ret.args.hasZones
  /\ ret.value = EmptyList

\* C14: no dispatcher operation throws on a service key or namespace that
\* matches no registered service: the miss is skipped or resolved empty.
C14_NoThrowOnMiss ==
  /\ (ret.op = "metricFindQuery" /\ ~Complete(ret.args.query))
       => ~ret.thrown
  /\ (ret.op \in {"getRegions", "getMetrics", "getZones", "getInstances"}
        /\ ret.args.service \notin ServiceKeys)
       => ~ret.thrown

\* C15: every invoked client is given a deep copy of the request of its own:
\* no object of a fragment is an object of the caller's request or of another
\* fragment, the caller's request is as it was, whatever the clients write,
\* and an object of a fragment carries no write of another client.
C15_Isolation ==
  \A d \in Slots :
    (disp[d].op = "query" /\ "heap" \in DOMAIN disp[d]) =>
      LET heap == disp[d].heap
          roots == disp[d].roots
          mine == Reach(heap, CallerRoot)
      IN  /\ Len(roots) = Len(disp[d].calls)
          /\ \A a \in mine : heap[a] = CallerHeap(disp[d].options)[a]
          /\ Deref(heap, CallerRoot) = disp[d].options
          /\ \A i \in DOMAIN roots :
               /\ Reach(heap, roots[i]) \cap mine = {}
               /\ \A j \in DOMAIN roots \ {i} :
                    Reach(heap, roots[i]) \cap Reach(heap, roots[j]) = {}
               /\ \A a \in Reach(heap, roots[i]) : heap[a].mark \in {0, i}
               /\ Deref(heap, roots[i]) = disp[d].calls[i].arg

\* Two clients have each written to every object of their fragment.
C15_Witness ==
  \E d \in Slots :
    /\ disp[d].op = "query" /\ "heap" \in DOMAIN disp[d]
    /\ Len(disp[d].roots) = 2
    /\ \A i \in {1, 2} :
         \A a \in Reach(disp[d].heap, disp[d].roots[i]) :
           disp[d].heap[a].mark = i

\* The places of the targets of service k in a target list.
PlacesOf(targets, k) == {i \in DOMAIN targets : targets[i].service = k}

\* The n-th smallest member of a set of numbers.
Nth(set, n) == CHOOSE x \in set : Cardinality({y \in set : y <= x}) = n

\* C16: in a query() dispatch the client of a service is called once when
\* the service is active and the request has a target of its key, and not at
\* all otherwise; it is given exactly the request's targets of that key, in
\* their order in the request; no other client is called.
C16_DispatchRelation ==
  \A d \in Slots :
    disp[d].op = "query" =>
      LET targets == disp[d].options.targets
          calls == disp[d].calls
      IN  /\ \A i \in DOMAIN calls :
               /\ calls[i].op = "query"
               /\ \E k \in ServiceKeys : calls[i].client = ClientKey(k)
          /\ \A k \in ServiceKeys :
               LET to == {i \in DOMAIN calls : calls[i].client = ClientKey(k)}
                   places == PlacesOf(targets, k)
               IN  /\ Cardinality(to) =
                        IF k \in Enabled(jsonData) /\ places # {}
                        THEN 1 ELSE 0
                   /\ \A i \in to :
                        /\ Len(calls[i].arg.targets) = Cardinality(places)
                        /\ \A n \in DOMAIN calls[i].arg.targets :
                             calls[i].arg.targets[n] = targets[Nth(places, n)]

\* cvm, cdb and clb active, the targets A and C of cvm around B of cdb: clb
\* is skipped and cvm is given A then C.
C16_Witness ==
  \E d \in Slots :
    /\ disp[d].op = "query"
    /\ Enabled(jsonData) = {cvm, cdb, clb}
    /\ [i \in DOMAIN disp[d].options.targets |->
          disp[d].options.targets[i].service] = <<cvm, cdb, cvm>>
    /\ Len(disp[d].calls) = 2
    /\ [i \in 1..2 |-> disp[d].calls[1].arg.targets[i].refId] = <<"A", "C">>

\* The outcome of the dispatch of slot d as its own request and its own
\* clients' completions alone determine it.
AloneOutcome(d) ==
  LET promises == disp[d].promises
  IN  IF disp[d].op = "query"
      THEN IF promises = <<>> THEN Resolved([data |-> <<>>])
           ELSE IF Rejections(d) # {}
           THEN Rejected(promises[FirstRejected(d)].error)
           ELSE IF AllFulfilled(promises)
           THEN Resolved([data |-> BlocksFrom(d, 1)])
           ELSE Pending
      ELSE IF promises = <<>> THEN TestReturn(<<>>)
           ELSE IF Rejections(d) # {}
           THEN Rejected(promises[FirstRejected(d)].error)
           ELSE IF AllFulfilled(promises)
           THEN Resolved(TestThen(Values(promises)))
           ELSE Pending

\* C17: no step of a dispatch writes the configuration, a step of one
\* dispatch leaves the other dispatch in flight as it is, and in every
\* interleaving each dispatch has the outcome it has when run alone.
C17_Independent ==
  /\ [](\A d \in Slots :
          disp[d].op # "idle" => disp[d].outcome = AloneOutcome(d))
  /\ [][/\ jsonData' = jsonData
        /\ \A d \in Slots : \A e \in Slots \ {d} :
             disp'[d] # disp[d] => disp'[e] = disp[e]]_vars

\* A query and a connectivity test in flight together, each with one of its
\* two clients done.
C17_Witness ==
  /\ disp["a"].op = "query" /\ disp["b"].op = "test"
  /\ \A d \in Slots :
       /\ Len(disp[d].promises) = 2
       /\ disp[d].outcome.state = "pending"
       /\ \E i, j \in 1..2 :
            /\ disp[d].promises[i].state = "fulfilled"
            /\ disp[d].promises[j].state = "pending"

\* The clients a dispatch record says were called, in call order.
ClientsOf(rec) == [i \in DOMAIN rec.calls |-> rec.calls[i].client]

\* C18: a dispatch that starts calls the clients of the services enabled in
\* the configuration as it is at that call (for query(), those of them the
\* request has targets of), whatever the flags were at earlier calls; while
\* a dispatch is in flight its services and calls stay as computed at its
\* start, whatever is written to the flags.
C18_SetPerDispatch ==
  [][\A d \in Slots :
       /\ (disp[d].op = "idle" /\ disp'[d].op = "test")
            => ClientsOf(disp'[d]) = EnabledClientsFrom(jsonData, 1)
       /\ (disp[d].op = "idle" /\ disp'[d].op = "query")
            => ClientsOf(disp'[d]) =
                 SelectSeq(EnabledClientsFrom(jsonData, 1),
                   LAMBDA c : \E k \in TargetServices(disp'[d].options) :
                                c = ClientKey(k))
       /\ (disp[d].op # "idle" /\ disp'[d].op # "idle")
            => /\ disp'[d].services = disp[d].services
               /\ disp'[d].calls = disp[d].calls]_vars

\* A connectivity test started with cvm alone enabled is still in flight
\* and calls cvm only; the flags are now cdb alone, and the query started
\* after the change calls cdb only.
C18_Witness ==
  /\ disp["a"].op = "test" /\ disp["a"].outcome.state = "pending"
  /\ ClientsOf(disp["a"]) = <<ClientKey(cvm)>>
  /\ Enabled(jsonData) = {cdb}
  /\ disp["b"].op = "query"
  /\ ClientsOf(disp["b"]) = <<ClientKey(cdb)>>

\* C19: with every client promise settling, a query() dispatch resolves or
\* rejects, and a testDatasource() dispatch resolves unless one of its
\* clients' promises rejected; no dispatch is resolved while a promise of
\* one of its clients is pending.
C19_Settles ==
  /\ \A d \in MainSlots :
       (disp[d].op = "query")
         ~> (disp[d].op = "query"
               /\ disp[d].outcome.state \in {"resolved", "rejected"})
  /\ \A d \in MainSlots :
       (disp[d].op = "test")
         ~> (disp[d].op = "test"
               /\ (disp[d].outcome.state = "resolved" \/ Rejections(d) # {}))
  /\ [](\A d \in Slots :
          (disp[d].op # "idle" /\ disp[d].outcome.state = "resolved")
            => \A i \in DOMAIN disp[d].promises :
                 disp[d].promises[i].state # "pending")

\* A query of two clients resolved, both of them done.
C19_Witness ==
  \E d \in MainSlots :
    /\ disp[d].op = "query"
    /\ Len(disp[d].promises) = 2
    /\ AllFulfilled(disp[d].promises)
    /\ disp[d].outcome.state = "resolved"

\* C20: in a query() dispatch the calls that returned a falsy value have no
\* promise and the others have one each, in call order; a rejected outcome
\* comes from a rejected promise; a resolved outcome is the merge of the
\* promises' results, each the answer to the fragment of its own call; with
\* no promise at all the outcome is resolved to {data: []}.
C20_FalsyLeftOut ==
  \A d \in Slots :
    (disp[d].op = "query" /\ "falsy" \in DOMAIN disp[d]) =>
      LET calls == disp[d].calls
          promises == disp[d].promises
          kept == {i \in DOMAIN calls : calls[i].client \notin disp[d].falsy}
      IN  /\ Len(promises) = Cardinality(kept)
          /\ \A k \in DOMAIN promises : promises[k].call = Nth(kept, k)
          /\ kept = {} => disp[d].outcome = Resolved([data |-> <<>>])
          /\ disp[d].outcome.state = "rejected" => Rejections(d) # {}
          /\ (disp[d].outcome.state = "resolved" /\ kept # {})
               => /\ disp[d].outcome.value.data = BlocksFrom(d, 1)
                  /\ \A k \in DOMAIN promises :
                       \E rev \in BOOLEAN :
                         promises[k].value =
                           ClientQueryResult(calls[promises[k].call].arg, rev)

\* Three clients called, the second returned a falsy value: the dispatch is
\* resolved with the results of the first and the third.
C20_Witness ==
  \E d \in Slots :
    /\ disp[d].op = "query"
    /\ Len(disp[d].calls) = 3
    /\ disp[d].falsy = {disp[d].calls[2].client}
    /\ disp[d].outcome.state = "resolved"
    /\ disp[d].outcome.value.data =
         disp[d].promises[1].value \o disp[d].promises[2].value
    /\ disp[d].outcome.value.data # <<>>

====
